---------------------------- MODULE Spec2Model ----------------------------
(***************************************************************************)
(* Appointment scheduling engine of the voice assistant.                   *)
(*                                                                         *)
(*   db_manager.py    AppointmentManager: appointments.json, a list of     *)
(*                    records, read and written whole by every call.       *)
(*   gcal_manager.py  GoogleCalendarManager: the same four operations      *)
(*                    against the Google Calendar API.                     *)
(*   assistant.py /   the tool wrappers, which run every call of a session *)
(*   agent.py         on a worker thread (asyncio.to_thread).              *)
(*                                                                         *)
(* Spec      one caller; every call runs to completion (one action each).  *)
(* SpecConc  two sessions on one appointments.json; every file access of   *)
(*           AppointmentManager is a step of its own.                      *)
(*                                                                         *)
(* A Python string built by an f-string is the tuple of its parts.  A     *)
(* text whose characters matter (substring tests, lower(), title()) is a   *)
(* sequence of one-character strings.                                      *)
(***************************************************************************)
EXTENDS Integers, Sequences, FiniteSets, TLC

(***************************************************************************)
(* Bounds of the model.                                                    *)
(***************************************************************************)
MaxRecords == 2
MaxCalls == 3

(***************************************************************************)
(* Inputs the callers draw from.                                           *)
(***************************************************************************)
Names == {"Alice", "Bob"}
Customers ==
    { <<"Alice", "555-0100", "checkup">>,
      <<"Bob", "555-0101", "cleaning">> }
\* (date, time) pairs asked for: three on the grid of AppointmentManager, one
\* (09:00 AM) that is not among its base slots
Slots ==
    { <<"2025-10-27", "10:00 AM">>, <<"2025-10-27", "02:00 PM">>,
      <<"2025-10-25", "10:00 AM">>, <<"2025-10-27", "09:00 AM">> }
\* the pairs the two concurrent sessions ask for
ConcSlots == { <<"2025-10-27", "10:00 AM">>, <<"2025-10-27", "02:00 PM">> }
Sessions == {1, 2}

VARIABLES
    backend,        \* which manager is the store: "json" or "gcal"
    db,             \* appointments.json: the persisted list of records
    clock,          \* datetime.now(), read once per record created
    op,             \* the operation that returned last
    result,         \* what it returned
    everCancelled,  \* history: identities persisted with status cancelled
    pc,             \* SpecConc: each session's position in its call
    loc,            \* SpecConc: each session's arguments and local data
    calls,          \* SpecConc: calls started so far
    succeeded,      \* SpecConc history: the calls that returned success
    events,         \* gcal: the events on the calendar
    lastCheck,      \* history: the date of the check_availability call that
                    \* returned last, "" once any other call has returned
    sms,            \* dependencies.sms: "ready" (an SMSManager) or "none"
    sms_tasks,      \* the send_confirmation tasks created and not yet finished
    sms_log         \* what send_confirmation logged last

vars == <<backend, db, clock, op, result, everCancelled, pc, loc, calls,
          succeeded, events, lastCheck, sms, sms_tasks, sms_log>>
concVars == <<pc, loc, calls, succeeded>>
gcalVars == <<events>>
smsVars == <<sms, sms_tasks, sms_log>>
\* what a step inside a call, before its return, leaves alone
retVars == <<op, result, lastCheck, smsVars>>

(***************************************************************************)
(* Helpers.                                                                *)
(***************************************************************************)
InSeq(x, s) == \E i \in DOMAIN s : s[i] = x

NoResult == <<>>

\* identity of a record: the fields no operation ever assigns after creation
Ident(r) == <<r.customer_name, r.date, r.time, r.created_at>>

CancelledIn(data) ==
    { Ident(data[i]) : i \in { j \in DOMAIN data : data[j].status = "cancelled" } }

ConfirmedAt(data, date, time) ==
    { i \in DOMAIN data :
        data[i].date = date /\ data[i].time = time /\ data[i].status = "confirmed" }

(***************************************************************************)
(* AppointmentManager (db_manager.py).                                     *)
(***************************************************************************)
base_slots == <<"10:00 AM", "02:00 PM", "04:00 PM">>

\* check_availability that forgets to take the booked times out
check_availability_keeps_booked(appointments, date) == base_slots

\* check_availability that takes out the confirmed times of every date
check_availability_any_date(appointments, date) ==
    LET booked_times ==
            { appointments[i].time :
                i \in { j \in DOMAIN appointments :
                          appointments[j].status = "confirmed" } }
    IN SelectSeq(base_slots, LAMBDA slot : slot \notin booked_times)

\* check_availability applied to the list _load_db returned
check_availability(appointments, date) ==
    LET booked_times ==
            { appointments[i].time :
                i \in { j \in DOMAIN appointments :
                          appointments[j].date = date
                          /\ appointments[j].status = "confirmed" } }
    IN SelectSeq(base_slots, LAMBDA slot : slot \notin booked_times)

\* new_appointment with the status spelled as no reader of the store expects
new_appointment_capitalised(name, contact, date, time, service, now) ==
    [ customer_name |-> name, contact |-> contact, date |-> date,
      time |-> time, service |-> service, status |-> "Confirmed",
      created_at |-> now ]

new_appointment(name, contact, date, time, service, now) ==
    [ customer_name |-> name, contact |-> contact, date |-> date,
      time |-> time, service |-> service, status |-> "confirmed",
      created_at |-> now ]

\* the loop without the test of the status
find_appointment_any_status(data, name, date, time) ==
    LET hits == { i \in DOMAIN data :
                    data[i].customer_name = name /\ data[i].date = date
                    /\ data[i].time = time }
    IN IF hits = {} THEN 0 ELSE CHOOSE i \in hits : \A j \in hits : i <= j

\* the loop without its break: the last matching record wins
find_appointment_last_match(data, name, date, time) ==
    LET hits == { i \in DOMAIN data :
                    data[i].customer_name = name /\ data[i].date = date
                    /\ data[i].time = time /\ data[i].status = "confirmed" }
    IN IF hits = {} THEN 0 ELSE CHOOSE i \in hits : \A j \in hits : i >= j

\* the loop of cancel_appointment and modify_appointment: index of the first
\* confirmed record equal in name, date and time; 0 when there is none
find_appointment(data, name, date, time) ==
    LET hits == { i \in DOMAIN data :
                    data[i].customer_name = name /\ data[i].date = date
                    /\ data[i].time = time /\ data[i].status = "confirmed" }
    IN IF hits = {} THEN 0 ELSE CHOOSE i \in hits : \A j \in hits : i <= j

\* a cancel that deletes the record instead of marking it
set_cancelled_removes(data, i) ==
    SubSeq(data, 1, i - 1) \o SubSeq(data, i + 1, Len(data))

set_cancelled(data, i) == [data EXCEPT ![i].status = "cancelled"]

\* a swap that copies the old record after cancelling it, status included
modify_swap_copies_status(data, i, new_date, new_time, now) ==
    Append(set_cancelled(data, i),
           [set_cancelled(data, i)[i] EXCEPT !.date = new_date, !.time = new_time,
                                             !.created_at = now])

\* the list modify_appointment saves: old record cancelled, new one appended
modify_swap(data, i, new_date, new_time, now) ==
    Append(set_cancelled(data, i),
           new_appointment(data[i].customer_name, data[i].contact,
                           new_date, new_time, data[i].service, now))

BookUnavailable(date, time) ==
    <<"Error: The slot ", time, " on ", date, " is not available.">>
BookSuccess == <<"Success: Appointment confirmed.">>
CancelSuccess == <<"Success: Appointment has been cancelled.">>
CancelNotFound ==
    <<"Error: Could not find a confirmed appointment with those details.">>
ModifyUnavailable(new_date, new_time) ==
    <<"Error: The new slot ", new_time, " on ", new_date, " is not available.">>
ModifyNotFound ==
    <<"Error: Could not find your existing appointment to modify.">>
ModifySuccess(old_date, old_time, new_date, new_time) ==
    <<"Success: Rescheduled from ", old_date, " ", old_time, " to ",
      new_date, " ", new_time, ".">>

\* `"Success" in res` of the tool wrappers
IsSuccess(res) ==
    /\ Len(res) > 0
    /\ res[1] \in {"Success: Appointment confirmed.",
                   "Success: Appointment has been cancelled.",
                   "Success: Rescheduled from ", "Success. Booked "}

Returns(o, res) ==
    /\ op' = o
    /\ result' = res
    /\ lastCheck' = ""
    /\ UNCHANGED smsVars

\* a book_appointment tool that creates the task whatever the result is
ReturnsBooked_always_notifies(res, contact, name, date, time, service) ==
    /\ op' = "book"
    /\ result' = res
    /\ lastCheck' = ""
    /\ sms_tasks' = IF sms = "ready"
                    THEN sms_tasks \cup {<<contact, name, date, time, service>>}
                    ELSE sms_tasks
    /\ UNCHANGED <<sms, sms_log>>

\* the book_appointment tool after the manager's call: on a result holding
\* "Success", and with an SMSManager at hand, create_task(to_thread(
\* sms.send_confirmation, contact, name, date, time, service)), then return
\* the result; the task is not awaited
ReturnsBooked(res, contact, name, date, time, service) ==
    /\ op' = "book"
    /\ result' = res
    /\ lastCheck' = ""
    /\ sms_tasks' = IF IsSuccess(res) /\ sms = "ready"
                    THEN sms_tasks \cup {<<contact, name, date, time, service>>}
                    ELSE sms_tasks
    /\ UNCHANGED <<sms, sms_log>>

\* SMSManager.send_confirmation run by its task: simulated without a Twilio
\* client, sent, or the Twilio error caught and logged; nothing but the log
\* keeps the outcome
send_confirmation(task, outcome) ==
    /\ task \in sms_tasks
    /\ sms_tasks' = sms_tasks \ {task}
    /\ sms_log' = outcome
    /\ UNCHANGED <<backend, db, clock, op, result, everCancelled, concVars,
                   gcalVars, lastCheck, sms>>

_load_db == db

Persist(data) ==
    /\ db' = data
    /\ everCancelled' = everCancelled \cup CancelledIn(data)

(***************************************************************************)
(* One caller: every call is one action.                                   *)
(***************************************************************************)
\* book_appointment without the availability check
book_appointment_unchecked(name, contact, date, time, service) ==
    /\ backend = "json"
    /\ Len(db) < MaxRecords
    /\ clock' = clock + 1
    /\ Persist(Append(db, new_appointment(name, contact, date, time, service, clock)))
    /\ Returns("book", BookSuccess)
    /\ UNCHANGED <<backend, concVars, gcalVars>>

book_appointment(name, contact, date, time, service) ==
    /\ backend = "json"
    /\ IF ~InSeq(time, check_availability(db, date))
       THEN /\ ReturnsBooked(BookUnavailable(date, time),
                              contact, name, date, time, service)
            /\ UNCHANGED <<db, clock, everCancelled>>
       ELSE /\ Len(db) < MaxRecords
            /\ clock' = clock + 1
            /\ Persist(Append(db, new_appointment(name, contact, date, time,
                                                  service, clock)))
            /\ ReturnsBooked(BookSuccess, contact, name, date, time, service)
    /\ UNCHANGED <<backend, concVars, gcalVars>>

cancel_appointment(name, date, time) ==
    /\ backend = "json"
    /\ LET i == find_appointment(db, name, date, time)
       IN IF i # 0
          THEN /\ Persist(set_cancelled(db, i))
               /\ Returns("cancel", CancelSuccess)
          ELSE /\ Returns("cancel", CancelNotFound)
               /\ UNCHANGED <<db, everCancelled>>
    /\ UNCHANGED <<backend, clock, concVars, gcalVars>>

\* modify_appointment that looks for the old appointment before it checks the
\* new slot
modify_appointment_finds_first(name, old_date, old_time, new_date, new_time) ==
    /\ backend = "json"
    /\ LET i == find_appointment(db, name, old_date, old_time)
       IN IF i = 0
          THEN /\ Returns("modify", ModifyNotFound)
               /\ UNCHANGED <<db, clock, everCancelled>>
          ELSE IF ~InSeq(new_time, check_availability(db, new_date))
          THEN /\ Returns("modify", ModifyUnavailable(new_date, new_time))
               /\ UNCHANGED <<db, clock, everCancelled>>
          ELSE /\ Len(db) < MaxRecords
               /\ clock' = clock + 1
               /\ Persist(modify_swap(db, i, new_date, new_time, clock))
               /\ Returns("modify", ModifySuccess(old_date, old_time,
                                                  new_date, new_time))
    /\ UNCHANGED <<backend, concVars, gcalVars>>

modify_appointment(name, old_date, old_time, new_date, new_time) ==
    /\ backend = "json"
    /\ IF ~InSeq(new_time, check_availability(db, new_date))
       THEN /\ Returns("modify", ModifyUnavailable(new_date, new_time))
            /\ UNCHANGED <<db, clock, everCancelled>>
       ELSE LET i == find_appointment(db, name, old_date, old_time)
            IN IF i = 0
               THEN /\ Returns("modify", ModifyNotFound)
                    /\ UNCHANGED <<db, clock, everCancelled>>
               ELSE /\ Len(db) < MaxRecords
                    /\ clock' = clock + 1
                    /\ Persist(modify_swap(db, i, new_date, new_time, clock))
                    /\ Returns("modify", ModifySuccess(old_date, old_time,
                                                       new_date, new_time))
    /\ UNCHANGED <<backend, concVars, gcalVars>>

\* a check_availability that writes back the list without its cancelled records
check_availability_call_prunes(date) ==
    /\ backend = "json"
    /\ op' = "check"
    /\ result' = check_availability(_load_db, date)
    /\ lastCheck' = date
    /\ Persist(SelectSeq(_load_db, LAMBDA a : a.status = "confirmed"))
    /\ UNCHANGED <<backend, clock, concVars, gcalVars, smsVars>>

\* AppointmentManager.check_availability as a call: one _load_db, no _save_db
check_availability_call(date) ==
    /\ backend = "json"
    /\ op' = "check"
    /\ result' = check_availability(_load_db, date)
    /\ lastCheck' = date
    /\ UNCHANGED <<backend, db, clock, everCancelled, concVars, gcalVars, smsVars>>

Dates == { sl[1] : sl \in Slots }

Book == \E c \in Customers, sl \in Slots :
            book_appointment(c[1], c[2], sl[1], sl[2], c[3])
Check == \E d \in Dates : check_availability_call(d)
Cancel == \E n \in Names, sl \in Slots : cancel_appointment(n, sl[1], sl[2])
Modify == \E n \in Names, o \in Slots, nw \in Slots :
            modify_appointment(n, o[1], o[2], nw[1], nw[2])

(***************************************************************************)
(* Two sessions on one appointments.json.  The wrappers hand every call to *)
(* asyncio.to_thread, so the calls of different sessions run on different  *)
(* threads and interleave at every file access: _load_db is one read of    *)
(* the file, _save_db is open(DB_FILE, 'w'), which truncates the file, and *)
(* then the write of the whole list.  An empty file makes json.load raise  *)
(* JSONDecodeError and _load_db return [].                                 *)
(***************************************************************************)
NoLocal == [op |-> "none", args |-> <<>>, now |-> 0, data |-> <<>>, res |-> <<>>]

Return(s, o, res) ==
    /\ Returns(o, res)
    /\ pc' = [pc EXCEPT ![s] = "idle"]
    /\ loc' = [loc EXCEPT ![s] = NoLocal]

\* book_appointment, lines 75-87: the availability read, then datetime.now()
ConcBookCheck(s, name, contact, date, time, service) ==
    /\ pc[s] = "idle" /\ calls < MaxCalls
    /\ calls' = calls + 1
    /\ IF ~InSeq(time, check_availability(_load_db, date))
       THEN /\ Return(s, "book", BookUnavailable(date, time))
            /\ UNCHANGED clock
       ELSE /\ pc' = [pc EXCEPT ![s] = "book_load"]
            /\ loc' = [loc EXCEPT ![s] =
                   [op |-> "book", args |-> <<name, contact, date, time, service>>,
                    now |-> clock, data |-> <<>>, res |-> BookSuccess]]
            /\ clock' = clock + 1
            /\ UNCHANGED retVars
    /\ UNCHANGED <<backend, db, everCancelled, succeeded, gcalVars>>

\* book_appointment, lines 89-90: the second _load_db and the append
ConcBookLoad(s) ==
    /\ pc[s] = "book_load"
    /\ LET a == loc[s].args
       IN loc' = [loc EXCEPT ![s].data =
                    Append(_load_db, new_appointment(a[1], a[2], a[3], a[4], a[5],
                                                     loc[s].now))]
    /\ pc' = [pc EXCEPT ![s] = "save_open"]
    /\ UNCHANGED <<backend, db, clock, retVars, everCancelled, calls,
                   succeeded, gcalVars>>

\* cancel_appointment, lines 96-114, up to the call of _save_db
ConcCancelLoad(s, name, date, time) ==
    /\ pc[s] = "idle" /\ calls < MaxCalls
    /\ calls' = calls + 1
    /\ LET data == _load_db
           i == find_appointment(data, name, date, time)
       IN IF i = 0
          THEN Return(s, "cancel", CancelNotFound)
          ELSE /\ pc' = [pc EXCEPT ![s] = "save_open"]
               /\ loc' = [loc EXCEPT ![s] =
                      [op |-> "cancel", args |-> <<name, date, time>>, now |-> 0,
                       data |-> set_cancelled(data, i), res |-> CancelSuccess]]
               /\ UNCHANGED retVars
    /\ UNCHANGED <<backend, db, clock, everCancelled, succeeded, gcalVars>>

\* modify_appointment, lines 122-124: the availability read
ConcModifyCheck(s, name, old_date, old_time, new_date, new_time) ==
    /\ pc[s] = "idle" /\ calls < MaxCalls
    /\ calls' = calls + 1
    /\ IF ~InSeq(new_time, check_availability(_load_db, new_date))
       THEN Return(s, "modify", ModifyUnavailable(new_date, new_time))
       ELSE /\ pc' = [pc EXCEPT ![s] = "modify_load"]
            /\ loc' = [loc EXCEPT ![s] =
                   [op |-> "modify",
                    args |-> <<name, old_date, old_time, new_date, new_time>>,
                    now |-> 0, data |-> <<>>,
                    res |-> ModifySuccess(old_date, old_time, new_date, new_time)]]
            /\ UNCHANGED retVars
    /\ UNCHANGED <<backend, db, clock, everCancelled, succeeded, gcalVars>>

\* modify_appointment, lines 126-155: the second _load_db, the search, the swap
ConcModifyLoad(s) ==
    /\ pc[s] = "modify_load"
    /\ LET a == loc[s].args
           data == _load_db
           i == find_appointment(data, a[1], a[2], a[3])
       IN IF i = 0
          THEN /\ Return(s, "modify", ModifyNotFound)
               /\ UNCHANGED clock
          ELSE /\ pc' = [pc EXCEPT ![s] = "save_open"]
               /\ loc' = [loc EXCEPT ![s].now = clock,
                                     ![s].data = modify_swap(data, i, a[4], a[5], clock)]
               /\ clock' = clock + 1
               /\ UNCHANGED retVars
    /\ UNCHANGED <<backend, db, everCancelled, calls, succeeded, gcalVars>>

\* _save_db, line 28: open(DB_FILE, 'w') leaves the file empty
ConcSaveOpen(s) ==
    /\ pc[s] = "save_open"
    /\ Persist(<<>>)
    /\ pc' = [pc EXCEPT ![s] = "save_write"]
    /\ UNCHANGED <<backend, clock, retVars, loc, calls, succeeded, gcalVars>>

\* _save_db, line 29, and the return of the success message
ConcSaveWrite(s) ==
    /\ pc[s] = "save_write"
    /\ Persist(loc[s].data)
    /\ succeeded' = succeeded \cup
            {[session |-> s, op |-> loc[s].op, args |-> loc[s].args, now |-> loc[s].now]}
    /\ Return(s, loc[s].op, loc[s].res)
    /\ UNCHANGED <<backend, clock, calls, gcalVars>>

ConcBook == \E s \in Sessions, c \in Customers, sl \in ConcSlots :
                ConcBookCheck(s, c[1], c[2], sl[1], sl[2], c[3])
\* the names a cancellation is asked for: the booked ones and one that
\* differs from a booked name in case only
CancelNames == Names \cup {"alice"}
ConcCancel == \E s \in Sessions, n \in CancelNames, sl \in ConcSlots :
                ConcCancelLoad(s, n, sl[1], sl[2])
ConcModify == \E s \in Sessions, n \in Names, o \in ConcSlots, nw \in ConcSlots :
                ConcModifyCheck(s, n, o[1], o[2], nw[1], nw[2])
ConcStep == \E s \in Sessions :
                \/ ConcBookLoad(s)
                \/ ConcModifyLoad(s)
                \/ ConcSaveOpen(s)
                \/ ConcSaveWrite(s)

(***************************************************************************)
(* Texts whose characters matter.                                          *)
(***************************************************************************)
UpperChars == <<"A", "B", "C", "D", "E", "F", "G", "H", "I", "J", "K", "L", "M",
                "N", "O", "P", "Q", "R", "S", "T", "U", "V", "W", "X", "Y", "Z">>
LowerChars == <<"a", "b", "c", "d", "e", "f", "g", "h", "i", "j", "k", "l", "m",
                "n", "o", "p", "q", "r", "s", "t", "u", "v", "w", "x", "y", "z">>
ToLower == [c \in { UpperChars[i] : i \in 1..26 } |->
                LowerChars[CHOOSE i \in 1..26 : UpperChars[i] = c]]
ToUpper == [c \in { LowerChars[i] : i \in 1..26 } |->
                UpperChars[CHOOSE i \in 1..26 : LowerChars[i] = c]]
IsUpper(c) == c \in DOMAIN ToLower
IsLower(c) == c \in DOMAIN ToUpper
LowerChar(c) == IF IsUpper(c) THEN ToLower[c] ELSE c
UpperChar(c) == IF IsLower(c) THEN ToUpper[c] ELSE c

\* str.lower()
lower(text) == [i \in DOMAIN text |-> LowerChar(text[i])]

\* str.title(): a letter is upper-cased after a non-letter, lower-cased after a letter
title(text) ==
    [i \in DOMAIN text |->
        IF i = 1 \/ ~(IsUpper(text[i - 1]) \/ IsLower(text[i - 1]))
        THEN UpperChar(text[i]) ELSE LowerChar(text[i])]

\* str.strip()
strip(text) ==
    LET solid == { i \in DOMAIN text : text[i] # " " }
    IN IF solid = {} THEN <<>>
       ELSE LET lo == CHOOSE i \in solid : \A j \in solid : i <= j
                hi == CHOOSE i \in solid : \A j \in solid : j <= i
            IN SubSeq(text, lo, hi)

\* `sub in text`
Contains(sub, text) ==
    \E k \in 0..(Len(text) - Len(sub)) :
        \A i \in DOMAIN sub : text[k + i] = sub[i]

(***************************************************************************)
(* GoogleCalendarManager (gcal_manager.py).                                *)
(***************************************************************************)
Al == <<"A", "l">>
Alan == <<"A", "l", "a", "n">>
Lea == <<"L", "e", "a">>
checkup == <<"c", "h", "e", "c", "k", "u", "p">>
cleaning == <<"c", "l", "e", "a", "n", "i", "n", "g">>
root_canal == <<"R", "o", "o", "t", " ", "c", "a", "n", "a", "l">>

GNames == {Al, Alan, Lea}
GCustomers ==
    { <<Al, "555-0100", root_canal>>,
      <<Alan, "555-0101", cleaning>>,
      <<Lea, "555-0102", checkup>> }
\* the (date, time) pairs asked for: a Monday on the grid twice, a Saturday, an
\* hour after closing, a time and a date that strptime rejects
GSlots ==
    { <<"2025-10-27", "10:00 AM">>, <<"2025-10-27", "11:00 AM">>,
      <<"2025-10-25", "10:00 AM">>, <<"2025-10-27", "05:00 PM">>,
      <<"2025-10-27", "10am">>, <<"2025-13-40", "10:00 AM">> }
\* the dates check_availability is asked about: Monday, Tuesday, Saturday,
\* Sunday, a month that does not exist and a text that is no date
GDates ==
    { "2025-10-27", "2025-10-28", "2025-10-25", "2025-10-26", "2025-13-40",
      "tomorrow" }
\* the pairs cancel and modify look for an existing event at
GOldSlots ==
    { <<"2025-10-27", "10:00 AM">>, <<"2025-10-27", "11:00 AM">>,
      <<"2025-10-27", "10am">> }

\* the fields strptime(date, "%Y-%m-%d") reads; <<>> when the text has another shape
DateFields(date) ==
    CASE date = "2025-10-27" -> <<2025, 10, 27>>
      [] date = "2025-10-25" -> <<2025, 10, 25>>
      [] date = "2025-10-26" -> <<2025, 10, 26>>
      [] date = "2025-10-28" -> <<2025, 10, 28>>
      [] date = "2025-13-40" -> <<2025, 13, 40>>
      [] OTHER -> <<>>

IsLeap(y) == (y % 4 = 0 /\ y % 100 # 0) \/ y % 400 = 0
DaysInMonth(y, m) ==
    IF m = 2 THEN (IF IsLeap(y) THEN 29 ELSE 28)
    ELSE IF m \in {4, 6, 9, 11} THEN 30 ELSE 31

\* strptime(date, "%Y-%m-%d") succeeds
DateParses(date) ==
    LET f == DateFields(date)
    IN /\ Len(f) = 3
       /\ f[2] \in 1..12
       /\ f[3] \in 1..DaysInMonth(f[1], f[2])

\* days since 1970-01-01 of a date that parses
DayNumber(date) ==
    LET f == DateFields(date)
        y == IF f[2] <= 2 THEN f[1] - 1 ELSE f[1]
        era == y \div 400
        yoe == y - era * 400
        mp == IF f[2] > 2 THEN f[2] - 3 ELSE f[2] + 9
        doy == (153 * mp + 2) \div 5 + f[3] - 1
        doe == yoe * 365 + yoe \div 4 - yoe \div 100 + doy
    IN era * 146097 + doe - 719468

\* datetime.weekday(): Monday is 0
weekday(date) == (DayNumber(date) + 3) % 7

Pad2(n) == IF n < 10 THEN "0" \o ToString(n) ELSE ToString(n)

\* strftime("%I:%M %p") of a full hour
FormatSlot(hour) ==
    LET h12 == IF hour % 12 = 0 THEN 12 ELSE hour % 12
    IN Pad2(h12) \o ":00 " \o (IF hour < 12 THEN "AM" ELSE "PM")

\* the texts strptime("%I:%M %p") reads as a full hour: zero padding is optional
HourTexts ==
    [h \in 0..23 |->
        LET h12 == IF h % 12 = 0 THEN 12 ELSE h % 12
        IN { FormatSlot(h),
             ToString(h12) \o ":00 " \o (IF h < 12 THEN "AM" ELSE "PM") }]

\* the hour each of those texts is read as
HourOfText ==
    [t \in UNION { HourTexts[h] : h \in 0..23 } |->
        CHOOSE h \in 0..23 : t \in HourTexts[h]]

HoursOf(time) == IF time \in DOMAIN HourOfText THEN {HourOfText[time]} ELSE {}

TimeParses(time) == HoursOf(time) # {}

\* _to_iso: the instant, in minutes since 1970-01-01 00:00 of the time zone;
\* defined when both texts parse, a ValueError otherwise
IsoParses(date, time) == DateParses(date) /\ TimeParses(time)
_to_iso(date, time) ==
    DayNumber(date) * 1440 + (CHOOSE h \in HoursOf(time) : TRUE) * 60

WORK_START == 9
WORK_END == 17

\* the grid built with `<=` for the closing hour
gcal_base_slots_through_close ==
    [i \in 1..(WORK_END - WORK_START + 1) |-> FormatSlot(WORK_START + i - 1)]

gcal_base_slots == [i \in 1..(WORK_END - WORK_START) |-> FormatSlot(WORK_START + i - 1)]

\* events().list(timeMin, timeMax): the events that overlap the window
ListWindow(evts, timeMin, timeMax) ==
    { e \in evts : e.end > timeMin /\ e.start < timeMax }
\* events().list(timeMin): the events that end after timeMin
ListFrom(evts, timeMin) == { e \in evts : e.end > timeMin }

\* check_availability with the weekend test off by one: Saturday is open
gcal_check_availability_saturday_open(evts, date) ==
    IF ~DateParses(date) THEN <<>>
    ELSE IF weekday(date) > 5 THEN <<>>
    ELSE LET listed == ListWindow(evts, _to_iso(date, "12:00 AM"),
                                  _to_iso(date, "12:00 AM") + 1439)
         IN SelectSeq(gcal_base_slots,
                      LAMBDA slot : ~\E e \in listed : e.start = _to_iso(date, slot))

\* check_availability when events().list answers
gcal_check_availability(evts, date) ==
    IF ~DateParses(date) THEN <<>>
    ELSE IF weekday(date) >= 5 THEN <<>>
    ELSE LET listed == ListWindow(evts, _to_iso(date, "12:00 AM"),
                                  _to_iso(date, "12:00 AM") + 1439)
         IN SelectSeq(gcal_base_slots,
                      LAMBDA slot : ~\E e \in listed : e.start = _to_iso(date, slot))

\* check_availability reaches events().list
ChecksCalendar(date) == DateParses(date) /\ weekday(date) < 5

SERVICES ==
    << <<"checkup", 30>>, <<"general checkup", 30>>, <<"cleaning", 60>>,
       <<"dental cleaning", 60>>, <<"root canal", 90>>, <<"surgery", 120>>,
       <<"extraction", 45>>, <<"consultation", 15>>, <<"consult", 15>> >>

\* the characters of the keys of SERVICES
KeyChars(key) ==
    CASE key = "checkup" -> <<"c", "h", "e", "c", "k", "u", "p">>
      [] key = "general checkup" ->
            <<"g", "e", "n", "e", "r", "a", "l", " ", "c", "h", "e", "c", "k", "u", "p">>
      [] key = "cleaning" -> <<"c", "l", "e", "a", "n", "i", "n", "g">>
      [] key = "dental cleaning" ->
            <<"d", "e", "n", "t", "a", "l", " ", "c", "l", "e", "a", "n", "i", "n", "g">>
      [] key = "root canal" -> <<"r", "o", "o", "t", " ", "c", "a", "n", "a", "l">>
      [] key = "surgery" -> <<"s", "u", "r", "g", "e", "r", "y">>
      [] key = "extraction" -> <<"e", "x", "t", "r", "a", "c", "t", "i", "o", "n">>
      [] key = "consultation" ->
            <<"c", "o", "n", "s", "u", "l", "t", "a", "t", "i", "o", "n">>
      [] key = "consult" -> <<"c", "o", "n", "s", "u", "l", "t">>

DefaultDuration == 60

\* _get_duration: the first key, in the order of the dict, found in the text
_get_duration(service_text) ==
    IF service_text = <<>> THEN DefaultDuration
    ELSE LET s == strip(lower(service_text))
             hits == { i \in DOMAIN SERVICES : Contains(KeyChars(SERVICES[i][1]), s) }
         IN IF hits = {} THEN DefaultDuration
            ELSE SERVICES[CHOOSE i \in hits : \A j \in hits : i <= j][2]

MonthNames == <<"January", "February", "March", "April", "May", "June", "July",
                "August", "September", "October", "November", "December">>
\* strftime("%B %d")
spoken_date(date) ==
    MonthNames[DateFields(date)[2]] \o " " \o Pad2(DateFields(date)[3])

\* the event book_appointment inserts
new_event(id, name, contact, date, time, service_type) ==
    [ id |-> id,
      summary |-> title(service_type) \o <<" ", "-", " ">> \o name,
      description |-> << <<"Contact: ", contact>>, <<"Service: ", service_type>>,
                         <<"Duration: ", _get_duration(service_type), " mins">> >>,
      start |-> _to_iso(date, time),
      end |-> _to_iso(date, time) + _get_duration(service_type) ]

\* the id the calendar gives an inserted event: one no event on it has
FreshId(evts) ==
    CHOOSE n \in 1..(Cardinality(evts) + 1) : \A e \in evts : e.id # n

GSorry(date) == <<"Sorry, no slots on ", date, ".">>
GUnavailable(time, alternatives) ==
    <<"Slot ", time, " unavailable. Try ", alternatives, ".">>
GBooked(service_type, name, date, time) ==
    <<"Success. Booked ", service_type, " (", _get_duration(service_type),
      " mins) for ", name, " on ", spoken_date(date), " at ", time, ".">>
GError(e) == <<"Error: ", e>>
GCancelled == <<"Old appointment found and cancelled.">>
GCancelNotFound(name, time) ==
    <<"Could not find appointment for ", name, " at ", time, ".">>
GCancelError(e) == <<"Error cancelling: ", e>>
GModifyNotFound(old_date, old_time) ==
    <<"I couldn't find your appointment on ", old_date, " at ", old_time,
      ", so I cannot reschedule it.">>
GModifyError(e) == <<"Error during rescheduling: ", e>>
Raised(e) == <<"raise ", e>>

\* available_slots[:3]
FirstTwo_takes_three(slots) == SubSeq(slots, 1, IF Len(slots) < 3 THEN Len(slots) ELSE 3)

\* available_slots[:2]
FirstTwo(slots) == SubSeq(slots, 1, IF Len(slots) < 2 THEN Len(slots) ELSE 2)

\* the events the loops of cancel_appointment and modify_appointment stop at:
\* events().list gives no order, so any listed event that matches may come first
MatchingEvents(evts, name, start_iso) ==
    { e \in ListFrom(evts, start_iso) :
        e.start = start_iso /\ Contains(lower(name), lower(e.summary)) }

\* modify_appointment, lines 220-235: the fields read back from the description
\* (no value of the model contains a label of another line)
DescriptionField(description, label, default) ==
    LET hits == { i \in DOMAIN description : description[i][1] = label }
    IN IF hits = {} THEN default
       ELSE description[CHOOSE i \in hits : \A j \in hits : j <= i][2]

\* the parameters of book_appointment after self, and the arguments
\* modify_appointment passes it: (name, contact, email, new_date, new_time, service_type)
BookParameters == 5
ModifyBookArguments(name, contact, email, new_date, new_time, service_type) ==
    <<name, contact, email, new_date, new_time, service_type>>

(***************************************************************************)
(* GoogleCalendarManager: one caller, every call one action.  `fault` is   *)
(* the number, in the order the call makes them, of the request to the     *)
(* Calendar API that raises; 0 when none does.                             *)
(***************************************************************************)
\* the body of book_appointment: the new calendar and the returned text
gcal_book(evts, name, contact, date, time, service_type, fault) ==
    IF ChecksCalendar(date) /\ fault = 1
    THEN [events |-> evts, result |-> GError("HttpError")]
    ELSE LET available_slots == gcal_check_availability(evts, date)
         IN IF ~InSeq(time, available_slots)
            THEN IF available_slots = <<>>
                 THEN [events |-> evts, result |-> GSorry(date)]
                 ELSE [events |-> evts,
                       result |-> GUnavailable(time, FirstTwo(available_slots))]
            ELSE IF fault = 2
                 THEN [events |-> evts, result |-> GError("HttpError")]
                 ELSE [events |-> evts \cup
                            {new_event(FreshId(evts), name, contact, date, time,
                                       service_type)},
                       result |-> GBooked(service_type, name, date, time)]

gcal_check(date, fault) ==
    /\ backend = "gcal"
    /\ IF ChecksCalendar(date) /\ fault = 1
       THEN Returns("check", Raised("HttpError"))
       ELSE Returns("check", gcal_check_availability(events, date))
    /\ UNCHANGED <<backend, db, clock, everCancelled, concVars, events>>

gcal_book_appointment(name, contact, date, time, service_type, fault) ==
    /\ backend = "gcal"
    /\ LET out == gcal_book(events, name, contact, date, time, service_type, fault)
       IN /\ events' = out.events
          /\ ReturnsBooked(out.result, contact, name, date, time, service_type)
    /\ UNCHANGED <<backend, db, clock, everCancelled, concVars>>

gcal_cancel_appointment(name, date, time, fault) ==
    /\ backend = "gcal"
    /\ IF ~IsoParses(date, time)
       THEN Returns("cancel", GCancelError("ValueError")) /\ UNCHANGED events
       ELSE IF fault = 1
       THEN Returns("cancel", GCancelError("HttpError")) /\ UNCHANGED events
       ELSE LET hits == MatchingEvents(events, name, _to_iso(date, time))
            IN IF hits = {}
               THEN Returns("cancel", GCancelNotFound(name, time)) /\ UNCHANGED events
               ELSE \E target \in hits :
                      IF fault = 2
                      THEN /\ Returns("cancel", GCancelError("HttpError"))
                           /\ UNCHANGED events
                      ELSE /\ events' = events \ {target}
                           /\ Returns("cancel", GCancelled)
    /\ UNCHANGED <<backend, db, clock, everCancelled, concVars>>

gcal_modify_appointment(name, old_date, old_time, new_date, new_time, fault) ==
    /\ backend = "gcal"
    /\ IF ~IsoParses(old_date, old_time)
       THEN Returns("modify", GModifyError("ValueError")) /\ UNCHANGED events
       ELSE IF fault = 1
       THEN Returns("modify", GModifyError("HttpError")) /\ UNCHANGED events
       ELSE LET hits == MatchingEvents(events, name, _to_iso(old_date, old_time))
            IN IF hits = {}
               THEN /\ Returns("modify", GModifyNotFound(old_date, old_time))
                    /\ UNCHANGED events
               ELSE \E target \in hits :
                      LET service_type ==
                              strip(DescriptionField(target.description, "Service: ",
                                                     <<"G", "e", "n", "e", "r", "a", "l", " ",
                                                       "C", "h", "e", "c", "k", "u", "p">>))
                          email == DescriptionField(target.description, "Email: ", "")
                          contact == DescriptionField(target.description, "Contact: ", "")
                          arguments == ModifyBookArguments(name, contact, email, new_date,
                                                           new_time, service_type)
                          deleted == events \ {target}
                      IN IF fault = 2
                         THEN /\ Returns("modify", GModifyError("HttpError"))
                              /\ UNCHANGED events
                         ELSE IF Len(arguments) # BookParameters
                         THEN \* the call of book_appointment raises TypeError
                              /\ events' = deleted
                              /\ Returns("modify", GModifyError("TypeError"))
                         ELSE LET out == gcal_book(deleted, arguments[1], arguments[2],
                                                   arguments[3], arguments[4],
                                                   arguments[5],
                                                   IF fault > 2 THEN fault - 2 ELSE 0)
                              IN /\ events' = out.events
                                 /\ Returns("modify", out.result)
    /\ UNCHANGED <<backend, db, clock, everCancelled, concVars>>

GCheck == \E d \in GDates, f \in 0..1 : gcal_check(d, f)
GBook == \E c \in GCustomers, sl \in GSlots, f \in 0..2 :
            gcal_book_appointment(c[1], c[2], sl[1], sl[2], c[3], f)
GCancel == \E n \in GNames, sl \in GOldSlots, f \in 0..2 :
            gcal_cancel_appointment(n, sl[1], sl[2], f)
GModify == \E n \in GNames, o \in GOldSlots, nw \in GSlots, f \in 0..4 :
            gcal_modify_appointment(n, o[1], o[2], nw[1], nw[2], f)

Init ==
    /\ backend \in {"json", "gcal"}
    /\ db = <<>>
    /\ clock = 1
    /\ op = "none"
    /\ result = NoResult
    /\ everCancelled = {}
    /\ pc = [s \in Sessions |-> "idle"]
    /\ loc = [s \in Sessions |-> NoLocal]
    /\ calls = 0
    /\ succeeded = {}
    /\ events = {}
    /\ lastCheck = ""
    /\ sms = "none"
    /\ sms_tasks = {}
    /\ sms_log = "none"

Next == Book \/ Check \/ Cancel \/ Modify \/ GCheck \/ GBook \/ GCancel \/ GModify

Spec == Init /\ [][Next]_vars

NextConc == ConcBook \/ ConcCancel \/ ConcModify \/ ConcStep

InitConc == Init /\ backend = "json"

SpecConc == InitConc /\ [][NextConc]_vars

\* the service texts a caller may say: nothing, a key of SERVICES, a key in
\* other case, a word that is no key, and two of these with a blank between
ServicePieces ==
    { KeyChars(SERVICES[i][1]) : i \in DOMAIN SERVICES }
        \cup { <<>>, root_canal, <<"x", "r", "a", "y">> }
ServiceTexts ==
    ServicePieces \cup { p \o <<" ">> \o q : p \in ServicePieces, q \in ServicePieces }

\* one customer books Monday 10:00 AM for any of the service texts, and
\* cancels it
DurationBook == \E service \in ServiceTexts :
                    gcal_book_appointment(Al, "555-0100", "2025-10-27", "10:00 AM",
                                          service, 0)
DurationCancel == gcal_cancel_appointment(Al, "2025-10-27", "10:00 AM", 0)

InitDuration == Init /\ backend = "gcal"

NextDuration == DurationBook \/ DurationCancel

SpecDuration == InitDuration /\ [][NextDuration]_vars

\* the tools with an SMSManager at hand
SmsOutcomes == {"simulated", "sent", "error"}
Notify == \E task \in sms_tasks, outcome \in SmsOutcomes :
            send_confirmation(task, outcome)

InitNotify ==
    /\ backend \in {"json", "gcal"}
    /\ db = <<>>
    /\ clock = 1
    /\ op = "none"
    /\ result = NoResult
    /\ everCancelled = {}
    /\ pc = [s \in Sessions |-> "idle"]
    /\ loc = [s \in Sessions |-> NoLocal]
    /\ calls = 0
    /\ succeeded = {}
    /\ events = {}
    /\ lastCheck = ""
    /\ sms = "ready"
    /\ sms_tasks = {}
    /\ sms_log = "none"

\* the bookings asked for here: a weekday slot and a Saturday slot
NotifySlots == { <<"2025-10-27", "10:00 AM">>, <<"2025-10-25", "10:00 AM">> }
NotifyBook == \E c \in Customers, sl \in NotifySlots :
                book_appointment(c[1], c[2], sl[1], sl[2], c[3])
NotifyGBook == \E c \in GCustomers, sl \in NotifySlots, f \in 0..2 :
                gcal_book_appointment(c[1], c[2], sl[1], sl[2], c[3], f)

NextNotify == NotifyBook \/ Cancel \/ NotifyGBook \/ GCancel \/ Notify

SpecNotify == InitNotify /\ [][NextNotify]_vars

(***************************************************************************)
(* Properties.                                                             *)
(***************************************************************************)
Confirmed(data) == { i \in DOMAIN data : data[i].status = "confirmed" }

\* the list is `data` with one record appended and nothing else touched
AppendsOne(data, after) ==
    /\ Len(after) = Len(data) + 1
    /\ \A k \in DOMAIN data : after[k] = data[k]

\* C1  One caller, store empty at the start: after any sequence of book, cancel
\* and modify calls no (date, time) holds two confirmed records.
C1_OneConfirmedPerSlot ==
    \A i, j \in Confirmed(db) :
        (db[i].date = db[j].date /\ db[i].time = db[j].time) => i = j

\* a slot was booked, cancelled and then booked again: two records at one
\* (date, time), only the second confirmed
C1_Witness ==
    /\ backend = "json" /\ op = "book" /\ IsSuccess(result)
    /\ Len(db) = 2
    /\ db[1].date = db[2].date /\ db[1].time = db[2].time
    /\ db[1].status = "cancelled" /\ db[2].status = "confirmed"

\* C2  Two sessions whose calls interleave at the file accesses: still no
\* (date, time) with two confirmed records in the file.
C2_NoDoubleBookingInterleaved ==
    \A date \in {sl[1] : sl \in ConcSlots}, time \in {sl[2] : sl \in ConcSlots} :
        Cardinality(ConfirmedAt(db, date, time)) <= 1

\* C3  A book call whose time is not in check_availability(date) returns the
\* slot-unavailable failure and changes nothing: AppointmentManager appends no
\* record, GoogleCalendarManager inserts no event.
C3_UnavailableBookChangesNothing ==
    [][ /\ (backend = "json" /\ op' = "book") =>
              \A sl \in Slots :
                 ~InSeq(sl[2], check_availability(db, sl[1])) =>
                    \A c \in Customers :
                       book_appointment(c[1], c[2], sl[1], sl[2], c[3])
                       => /\ result' = BookUnavailable(sl[1], sl[2])
                          /\ ~IsSuccess(result')
                          /\ db' = db
        /\ (backend = "gcal" /\ op' = "book") =>
              \A sl \in GSlots :
                 ~InSeq(sl[2], gcal_check_availability(events, sl[1])) =>
                    \A c \in GCustomers, f \in {0, 2} :
                       gcal_book_appointment(c[1], c[2], sl[1], sl[2], c[3], f)
                       => /\ result'[1] \in {"Sorry, no slots on ", "Slot "}
                          /\ ~IsSuccess(result')
                          /\ events' = events
      ]_vars

\* a book call has just failed on a slot that a confirmed record (an event) holds
C3_Witness ==
    \/ /\ backend = "json" /\ op = "book" /\ Len(result) = 5
       /\ ConfirmedAt(db, result[4], result[2]) # {}
    \/ /\ backend = "gcal" /\ op = "book" /\ result[1] = "Slot "
       /\ \E e \in events : e.start = _to_iso("2025-10-27", result[2])

\* C4  One caller: a book call that succeeds appends exactly one confirmed
\* record with the five values given; while a record is confirmed, its time is
\* not in check_availability of its date and every book call at its date and
\* time, for any customer, fails as slot-unavailable.
C4_BookedSlotStaysTaken ==
    [][ /\ \A c \in Customers, sl \in Slots :
              ( /\ backend = "json" /\ op' = "book"
                /\ book_appointment(c[1], c[2], sl[1], sl[2], c[3]) ) =>
                /\ IsSuccess(result') =>
                     /\ AppendsOne(db, db')
                     /\ LET r == db'[Len(db')]
                        IN /\ r.customer_name = c[1] /\ r.contact = c[2]
                           /\ r.date = sl[1] /\ r.time = sl[2]
                           /\ r.service = c[3] /\ r.status = "confirmed"
                /\ ConfirmedAt(db, sl[1], sl[2]) # {} =>
                     /\ result' = BookUnavailable(sl[1], sl[2])
                     /\ db' = db
        /\ \A i \in Confirmed(db') :
              ~InSeq(db'[i].time, check_availability(db', db'[i].date))
      ]_vars

\* a book call failed on a slot whose confirmed record was booked by someone
\* before it
C4_Witness ==
    /\ backend = "json" /\ op = "book" /\ Len(result) = 5
    /\ \E i \in Confirmed(db) :
          /\ db[i].date = result[4] /\ db[i].time = result[2]
          /\ ~InSeq(db[i].time, check_availability(db, db[i].date))

\* C5  modify checks the new slot first: when it is not in
\* check_availability(new_date), whether or not the old appointment exists and
\* also when the new slot is the old one, the call returns the slot-unavailable
\* failure and leaves the store as it was.
C5_ModifyUnavailableChangesNothing ==
    [][ (backend = "json" /\ op' = "modify") =>
          \A nw \in Slots :
             ~InSeq(nw[2], check_availability(db, nw[1])) =>
                \A n \in Names, o \in Slots :
                   modify_appointment(n, o[1], o[2], nw[1], nw[2])
                   => /\ result' = ModifyUnavailable(nw[1], nw[2])
                      /\ db' = db
      ]_vars

\* a modify call has just failed on a new slot that a confirmed record holds
C5_Witness ==
    /\ backend = "json" /\ op = "modify"
    /\ Len(result) = 5 /\ result[1] = "Error: The new slot "
    /\ ConfirmedAt(db, result[4], result[2]) # {}

\* C6  One caller: a modify call that succeeds cancels the first confirmed record
\* matching (name, old_date, old_time), leaving its date and time, and appends
\* one confirmed record at (new_date, new_time) with that record's name, contact
\* and service; afterwards the customer has no confirmed record at the old slot
\* and the new slot holds exactly one confirmed record.
C6_ModifySwaps ==
    [][ \A n \in Names, o \in Slots, nw \in Slots :
          ( /\ backend = "json" /\ op' = "modify" /\ IsSuccess(result')
            /\ modify_appointment(n, o[1], o[2], nw[1], nw[2]) )
          => \E i \in DOMAIN db :
                /\ db[i].customer_name = n /\ db[i].date = o[1]
                /\ db[i].time = o[2] /\ db[i].status = "confirmed"
                /\ \A k \in 1..(i - 1) :
                      ~( db[k].customer_name = n /\ db[k].date = o[1]
                         /\ db[k].time = o[2] /\ db[k].status = "confirmed" )
                /\ Len(db') = Len(db) + 1
                /\ \A k \in DOMAIN db : k # i => db'[k] = db[k]
                /\ db'[i] = [db[i] EXCEPT !.status = "cancelled"]
                /\ LET r == db'[Len(db')]
                   IN /\ r.customer_name = db[i].customer_name
                      /\ r.contact = db[i].contact
                      /\ r.service = db[i].service
                      /\ r.date = nw[1] /\ r.time = nw[2]
                      /\ r.status = "confirmed"
                /\ ~\E k \in ConfirmedAt(db', o[1], o[2]) : db'[k].customer_name = n
                /\ Cardinality(ConfirmedAt(db', nw[1], nw[2])) = 1
      ]_vars

\* a modify call has just succeeded: the last record is confirmed and an earlier
\* one of the same customer is cancelled at the slot the call names as the old one
C6_Witness ==
    /\ backend = "json" /\ op = "modify" /\ IsSuccess(result)
    /\ \E i \in DOMAIN db :
          /\ i < Len(db)
          /\ db[i].status = "cancelled"
          /\ db[i].date = result[2] /\ db[i].time = result[4]
          /\ db[i].customer_name = db[Len(db)].customer_name
          /\ db[Len(db)].status = "confirmed"

\* C7  A GoogleCalendarManager.modify_appointment call that does not end with
\* the new event booked leaves the old event on the calendar: no call deletes an
\* event without inserting one.
C7_ModifyKeepsOldUnlessRebooked ==
    [][ \A n \in GNames, o \in GOldSlots, nw \in GSlots, f \in 0..4 :
          ( /\ backend = "gcal" /\ op' = "modify"
            /\ gcal_modify_appointment(n, o[1], o[2], nw[1], nw[2], f) ) =>
             ( (events \ events' # {}) => (events' \ events # {}) )
      ]_vars

\* C8  With an event booked for name at the old slot, the new slot available and
\* the Calendar API answering, modify_appointment returns success, after which
\* no event of the customer starts at the old slot and exactly one starts at the
\* new slot, with the service and contact of the old event.
C8_ModifyMovesEvent ==
    [][ \A c \in GCustomers, o \in GOldSlots, nw \in GSlots :
          ( /\ backend = "gcal" /\ op' = "modify"
            /\ IsoParses(o[1], o[2])
            /\ new_event(1, c[1], c[2], o[1], o[2], c[3])
                 \in { [e EXCEPT !.id = 1] : e \in events }
            /\ InSeq(nw[2], gcal_check_availability(events, nw[1]))
            /\ gcal_modify_appointment(c[1], o[1], o[2], nw[1], nw[2], 0) )
          => /\ IsSuccess(result')
             /\ ~\E e \in events' : e.start = _to_iso(o[1], o[2])
             /\ \E e \in events' :
                   /\ e.start = _to_iso(nw[1], nw[2])
                   /\ e.description[1] = <<"Contact: ", c[2]>>
                   /\ e.description[2] = <<"Service: ", c[3]>>
                   /\ \A e2 \in events' : e2.start = e.start => e2 = e
      ]_vars

\* C9  Cancelled is terminal in the file, also when two sessions interleave: a
\* record once persisted as cancelled is never persisted as confirmed later.
C9_CancelledIsTerminal ==
    \A i \in Confirmed(db) : Ident(db[i]) \notin everCancelled

\* C10 One caller: every operation keeps the stored records, in their order and
\* with their name, contact, date, time, service and created_at; it changes the
\* status of at most one of them, and only from confirmed to cancelled; records
\* are only appended.
C10_HistoryRetained ==
    [][ /\ Len(db') >= Len(db)
        /\ \A k \in DOMAIN db :
              \/ db'[k] = db[k]
              \/ /\ db[k].status = "confirmed"
                 /\ db'[k] = [db[k] EXCEPT !.status = "cancelled"]
        /\ Cardinality({ k \in DOMAIN db : db'[k] # db[k] }) <= 1
      ]_vars

\* a cancelled record and a later confirmed one share a (date, time)
C10_Witness ==
    \E i, j \in DOMAIN db :
        /\ i < j
        /\ db[i].status = "cancelled" /\ db[j].status = "confirmed"
        /\ db[i].date = db[j].date /\ db[i].time = db[j].time

\* C11 cancel_appointment(name, date, time) with no confirmed record equal in
\* name, date and time (a cancelled one does not count) returns the not-found
\* failure and leaves the store as it was.
C11_CancelNotFoundChangesNothing ==
    [][ (backend = "json" /\ op' = "cancel") =>
          \A n \in Names, sl \in Slots :
             ( /\ ~\E i \in DOMAIN db :
                      /\ db[i].customer_name = n /\ db[i].date = sl[1]
                      /\ db[i].time = sl[2] /\ db[i].status = "confirmed"
               /\ cancel_appointment(n, sl[1], sl[2]) )
             => /\ result' = CancelNotFound
                /\ db' = db
                /\ everCancelled' = everCancelled
      ]_vars

\* a cancel call has just failed on a store whose records are all cancelled
C11_Witness ==
    /\ backend = "json" /\ op = "cancel" /\ result = CancelNotFound
    /\ Len(db) > 0
    /\ \A i \in DOMAIN db : db[i].status = "cancelled"

\* C12 GoogleCalendarManager.check_availability returns the empty sequence,
\* and does not raise, for a Saturday, a Sunday and a text that is no valid
\* YYYY-MM-DD date, whatever the calendar holds and whether or not the Calendar
\* API would answer.
C12_WeekendOrBadDateIsEmpty ==
    [][ (backend = "gcal" /\ op' = "check") =>
          \A d \in {"2025-10-25", "2025-10-26", "2025-13-40", "tomorrow"},
             f \in 0..1 :
             gcal_check(d, f) => result' = <<>>
      ]_vars

\* check_availability has just returned no slot although the calendar holds
\* events (a weekday with events would still list free hours)
C12_Witness ==
    /\ backend = "gcal" /\ op = "check" /\ result = <<>>
    /\ events # {}

\* C13 AppointmentManager.book_appointment on a Saturday or Sunday, whatever
\* the time and the store, fails as slot-unavailable and appends no record.
C13_WeekendBookFails ==
    [][ (backend = "json" /\ op' = "book") =>
          \A c \in Customers, sl \in { x \in Slots : x[1] = "2025-10-25" } :
             book_appointment(c[1], c[2], sl[1], sl[2], c[3])
             => /\ result' = BookUnavailable(sl[1], sl[2])
                /\ db' = db
      ]_vars

\* C14 On a weekday on which the calendar holds no event,
\* GoogleCalendarManager.check_availability returns the eight hourly starts
\* from 09:00 AM to 04:00 PM in ascending order, none at or after 05:00 PM.
C14_EmptyWeekdayIsFullGrid ==
    [][ (backend = "gcal" /\ op' = "check") =>
          \A d \in {"2025-10-27", "2025-10-28"} :
             ( /\ ~\E e \in events : e.start \div 1440 = DayNumber(d)
               /\ gcal_check(d, 0) )
             => result' = <<"09:00 AM", "10:00 AM", "11:00 AM", "12:00 PM",
                            "01:00 PM", "02:00 PM", "03:00 PM", "04:00 PM">>
      ]_vars

\* the full grid has just been returned for a day without events while another
\* day holds one
C14_Witness ==
    /\ backend = "gcal" /\ op = "check" /\ Len(result) = 8
    /\ result[1] = "09:00 AM" /\ result[8] = "04:00 PM"
    /\ events # {}

\* C15: AppointmentManager.check_availability has no side effect: a call
\* leaves the persisted store (and so the file, the clock and every record)
\* exactly as it was, and a call for the date of the check that returned
\* just before it, with no other call in between, returns the same slots.
C15_CheckHasNoSideEffect ==
    [][ (backend = "json" /\ op' = "check") =>
          \A d \in Dates :
             check_availability_call(d)
             => /\ db' = db
                /\ everCancelled' = everCancelled
                /\ clock' = clock
                /\ (lastCheck = d => result' = result) ]_vars

\* a check has just returned the free slots of a date on a store that holds
\* a confirmed and a cancelled record
C15_Witness ==
    /\ backend = "json" /\ op = "check" /\ lastCheck = "2025-10-27"
    /\ result = <<"02:00 PM", "04:00 PM">>
    /\ \E i, j \in DOMAIN db : db[i].status = "confirmed" /\ db[j].status = "cancelled"

C17_NoFaultEscapes ==
    (backend = "gcal" /\ op \in {"check", "book", "cancel", "modify"})
    => ~(Len(result) = 2 /\ result[1] = "raise ")

\* a confirmed record holds time t of date d
C18_Held(d, t) ==
    \E i \in DOMAIN db :
        db[i].date = d /\ db[i].time = t /\ db[i].status = "confirmed"

\* r is the base list without the held times of date d, in base order
C18_ExactlyFree(r, d) ==
    /\ \A t \in {"10:00 AM", "02:00 PM", "04:00 PM"} : InSeq(t, r) <=> ~C18_Held(d, t)
    /\ \A k \in DOMAIN r : r[k] \in {"10:00 AM", "02:00 PM", "04:00 PM"}
    /\ \A k, l \in DOMAIN r :
          k < l => \/ r[k] = "10:00 AM" /\ r[l] \in {"02:00 PM", "04:00 PM"}
                   \/ r[k] = "02:00 PM" /\ r[l] = "04:00 PM"

\* C18: for every date, AppointmentManager.check_availability returns exactly
\* the base slots 10:00 AM, 02:00 PM, 04:00 PM that no record with that date
\* and status confirmed holds, each once and in the order of the base list:
\* records of other dates and cancelled records take no slot away.  The
\* slots a check call returned are those of the date it was asked.
C18_AvailabilityIsBaseMinusConfirmed ==
    backend = "json" =>
        /\ \A d \in Dates \cup {"2025-10-28"} :
              C18_ExactlyFree(check_availability(db, d), d)
        /\ op = "check" => C18_ExactlyFree(result, lastCheck)

\* a check of Monday returned all three slots although the store holds a
\* cancelled Monday record and a confirmed record of another date
C18_Witness ==
    /\ backend = "json" /\ op = "check" /\ lastCheck = "2025-10-27"
    /\ result = <<"10:00 AM", "02:00 PM", "04:00 PM">>
    /\ \E i, j \in DOMAIN db :
          /\ db[i].date = "2025-10-27" /\ db[i].status = "cancelled"
          /\ db[j].date = "2025-10-25" /\ db[j].status = "confirmed"

\* C19: a cancel_appointment that succeeds changes exactly one record of the
\* list it loaded: the first one, in store order, whose customer_name, date
\* and time equal the arguments exactly and whose status is confirmed.  That
\* record becomes cancelled; every other record, a later confirmed record
\* with the same three fields included, is saved as it was loaded, and the
\* list the call writes with its success is that list.
C19_CancelChangesFirstMatchOnly ==
    [][ \A s \in Sessions :
          /\ (pc[s] = "idle" /\ pc'[s] = "save_open")
             => LET a == loc'[s].args
                    saved == loc'[s].data
                IN /\ loc'[s].op = "cancel" /\ loc'[s].res = CancelSuccess
                   /\ Len(saved) = Len(db)
                   /\ \E i \in DOMAIN db :
                        /\ db[i].customer_name = a[1] /\ db[i].date = a[2]
                        /\ db[i].time = a[3] /\ db[i].status = "confirmed"
                        /\ \A j \in 1..(i - 1) :
                              ~( /\ db[j].customer_name = a[1] /\ db[j].date = a[2]
                                 /\ db[j].time = a[3] /\ db[j].status = "confirmed" )
                        /\ saved[i] = [db[i] EXCEPT !.status = "cancelled"]
                        /\ \A j \in DOMAIN db \ {i} : saved[j] = db[j]
          /\ (pc[s] = "save_write" /\ pc'[s] = "idle" /\ loc[s].op = "cancel")
             => /\ db' = loc[s].data
                /\ op' = "cancel" /\ result' = CancelSuccess ]_vars

\* two confirmed records had the same name, date and time; the cancellation
\* that returned success marked the first and left the second confirmed
C19_Witness ==
    /\ backend = "json" /\ op = "cancel" /\ result = CancelSuccess
    /\ Len(db) = 2
    /\ db[1].status = "cancelled" /\ db[2].status = "confirmed"
    /\ db[1].customer_name = db[2].customer_name
    /\ db[1].date = db[2].date /\ db[1].time = db[2].time

\* C20: when GoogleCalendarManager.book_appointment fails because the time
\* asked for is not among the n slots check_availability(date) gave in that
\* call, the alternatives it reports are the first min(2, n) of those slots
\* in their order and never hold the time asked for; with n = 0 it reports
\* no alternative ("Sorry, no slots on <date>.").  Nothing is booked.  The
\* last conjunct takes the alternatives of every tail of the day's grid, so
\* that n = 1 and n = 2 are covered as well.
C20_AlternativesAreFirstTwoFree ==
    [][ (backend = "gcal" /\ op' = "book") =>
          /\ \A sl \in GSlots :
               LET avail == gcal_check_availability(events, sl[1])
                   n == Len(avail)
               IN ~InSeq(sl[2], avail) =>
                    \A c \in GCustomers, f \in 0..2 :
                       ( /\ ~(ChecksCalendar(sl[1]) /\ f = 1)
                         /\ gcal_book_appointment(c[1], c[2], sl[1], sl[2], c[3], f) )
                       => /\ events' = events
                          /\ IF n = 0
                             THEN result' = <<"Sorry, no slots on ", sl[1], ".">>
                             ELSE /\ Len(result') = 5
                                  /\ result'[1] = "Slot " /\ result'[2] = sl[2]
                                  /\ result'[3] = " unavailable. Try "
                                  /\ Len(result'[4]) = (IF n < 2 THEN n ELSE 2)
                                  /\ \A k \in DOMAIN result'[4] :
                                        result'[4][k] = avail[k] /\ result'[4][k] # sl[2]
          /\ \A k \in 0..Len(gcal_base_slots) :
               LET tail == SubSeq(gcal_base_slots, k + 1, Len(gcal_base_slots))
                   n == Len(tail)
               IN /\ Len(FirstTwo(tail)) = (IF n < 2 THEN n ELSE 2)
                  /\ \A i \in DOMAIN FirstTwo(tail) : FirstTwo(tail)[i] = tail[i] ]_vars

\* 10:00 AM on Monday was asked for again while an event holds it: the two
\* alternatives are the first two free slots, 10:00 AM skipped
C20_Witness ==
    /\ backend = "gcal" /\ op = "book"
    /\ Len(result) = 5 /\ result[1] = "Slot " /\ result[2] = "10:00 AM"
    /\ result[4] = <<"09:00 AM", "11:00 AM">>
    /\ events # {}

\* C21: the duration of every booked event is the duration of the longest
\* key of SERVICES found, letter case aside, in its service text (of one of
\* the longest when several have that length), and 60 when the text is empty
\* or holds no key.
C21_LongestKeyWins ==
    backend = "gcal" =>
        \A e \in events :
            LET text == lower(DescriptionField(e.description, "Service: ", <<>>))
                found == { i \in DOMAIN SERVICES :
                             Contains(KeyChars(SERVICES[i][1]), text) }
            IN IF found = {}
               THEN e.end - e.start = 60
               ELSE \E i \in found :
                      /\ \A j \in found : Len(KeyChars(SERVICES[j][1]))
                                            <= Len(KeyChars(SERVICES[i][1]))
                      /\ e.end - e.start = SERVICES[i][2]

\* C22: no partial-write window.  While a session is inside _save_db, after
\* open(DB_FILE, 'w') and before the write, the file holds, and so a
\* _load_db of the other session returns, the complete list from before the
\* save or the complete list the save writes, never less.
C22_NoPartialWriteWindow ==
    [][ \A s \in Sessions :
          (pc[s] = "save_open" /\ pc'[s] = "save_write")
          => db' \in {db, loc[s].data} ]_vars

\* C23: no successful booking is lost.  When book_appointment calls for two
\* different slots have both returned success, nothing has been cancelled or
\* rescheduled and no call is in progress, the file holds a confirmed record
\* for each of the two bookings.
C23_NoBookingLost ==
    ( /\ \A s \in Sessions : pc[s] = "idle"
      /\ \A c \in succeeded : c.op = "book" )
    => \A b1, b2 \in succeeded :
          (b1.args[3] # b2.args[3] \/ b1.args[4] # b2.args[4])
          => \A b \in {b1, b2} :
                \E i \in DOMAIN db :
                    /\ db[i].customer_name = b.args[1]
                    /\ db[i].date = b.args[3] /\ db[i].time = b.args[4]
                    /\ db[i].status = "confirmed"

\* C26: every confirmed record is cancelled or rescheduled with success at
\* most once, also when a cancel and a modify of two sessions interleave:
\* for each name, date and time, the calls that returned success in taking
\* such an appointment away (cancel, or modify from it) are no more than the
\* calls that returned success in creating one (book, or modify to it).
C26_OneSuccessPerAppointment ==
    \A n \in CancelNames, sl \in ConcSlots :
        Cardinality({ c \in succeeded :
                        \/ c.op = "cancel" /\ c.args = <<n, sl[1], sl[2]>>
                        \/ /\ c.op = "modify" /\ c.args[1] = n
                           /\ c.args[2] = sl[1] /\ c.args[3] = sl[2] })
        <= Cardinality({ c \in succeeded :
                        \/ /\ c.op = "book" /\ c.args[1] = n
                           /\ c.args[3] = sl[1] /\ c.args[4] = sl[2]
                        \/ /\ c.op = "modify" /\ c.args[1] = n
                           /\ c.args[4] = sl[1] /\ c.args[5] = sl[2] })

\* C25: cancel_appointment(name, ...) and modify_appointment(name, ...) of
\* GoogleCalendarManager delete only an event that was booked for the
\* customer called name, an event whose summary is "<Service> - <name>": an
\* event of a customer whose name or whose service merely contains the
\* name stays on the calendar.
C25_DeletesOnlyTheNamedCustomersEvent ==
    [][ (backend = "gcal" /\ op' \in {"cancel", "modify"} /\ events' # events) =>
          \A n \in GNames :
             ( \/ \E sl \in GOldSlots, f \in 0..2 :
                     gcal_cancel_appointment(n, sl[1], sl[2], f)
               \/ \E o \in GOldSlots, nw \in GSlots, f \in 0..4 :
                     gcal_modify_appointment(n, o[1], o[2], nw[1], nw[2], f) )
             => \A e \in events \ events' :
                   e.summary = title(DescriptionField(e.description, "Service: ", <<>>))
                                 \o <<" ", "-", " ">> \o n ]_vars

\* C24: no two events on the calendar overlap, each taking the minutes from
\* its start to its start plus the duration of its service: a slot is not
\* booked while an earlier, longer appointment is still running.
C24_NoOverlap ==
    backend = "gcal" =>
        \A e1, e2 \in events :
            e1 # e2 => ~(e1.start < e2.end /\ e2.start < e1.end)

=============================================================================
